---- MODULE Spec2Model ----
(***************************************************************************)
(* Session layer of rust-fuse (src/src/session.rs).                        *)
(*                                                                         *)
(* One Session is followed from Session::new to its drop.  Two threads act *)
(* on it: the caller (which constructs the Session and then runs it in     *)
(* place, drops it, or spawns it) and the background task created by       *)
(* BackgroundSession::new.  The kernel side of the channel is the          *)
(* environment: it delivers messages and errors to receive and may unmount *)
(* the filesystem out of band.                                             *)
(*                                                                         *)
(* The channel (channel.rs) and the decoder and dispatcher (request.rs) are *)
(* collaborators of the session: the operators that stand for them         *)
(* (Receive.., ChannelRelease, Request, Dispatch..) follow their interface  *)
(* contracts.                                                              *)
(***************************************************************************)
EXTENDS Integers, Sequences, FiniteSets, TLC

\* ------------------------------------------------------------------ bounds
\* Receives that keep the loop going (retries and messages), over all runs.
MaxRecv == 4
\* Calls of Session::run made by the caller on one Session.
MaxRuns == 2
\* Cells of the receive buffer that the model tracks (the buffer's prefix).
BufCells == 4

\* --------------------------------------------------------------- constants
\* use libc::{EAGAIN, EINTR, ENODEV, ENOENT}  (Linux values)
ENOENT == 2
EINTR == 4
EAGAIN == 11
ENODEV == 19
\* Error codes the match does not name: EIO, EBADF.
OtherErrnos == {5, 9}
RetryErrnos == {ENOENT, EINTR, EAGAIN}

MAX_WRITE_SIZE == 16 * 1024 * 1024
BUFFER_SIZE == MAX_WRITE_SIZE + 4096

\* Opcodes of the kernel protocol known to the decoder, and the size of the
\* message header <<len, opcode, unique>>.
FUSE_LOOKUP == 1
FUSE_INIT == 26
FUSE_DESTROY == 38
Opcodes == {FUSE_LOOKUP, FUSE_INIT, FUSE_DESTROY}
HeaderLen == 3

VARIABLES
    caller,        \* position of the thread that called Session::new
    worker,        \* position of the background task
    loop,          \* position inside Session::run
    seState,       \* "none", "live", "dropped": the Session value
    proto_major, proto_minor, initialized, destroyed,   \* Session fields
    mounted,       \* the kernel has the filesystem mounted at mountpoint
    chDrops,       \* how often the Session's Channel has been released
    unmountCalls,  \* calls of channel::unmount made by BackgroundSession::drop
    log,           \* info! lines, in order
    buffer,        \* first BufCells cells of run's receive buffer
    res,           \* result of the last ch.receive: Ok(len) or Err(errno)
    req,           \* request bound by the Some(req) arm
    runs,          \* calls of Session::run so far
    receives,      \* calls of ch.receive so far
    retries,       \* `continue` arms taken so far
    delivered,     \* messages the channel delivered so far (successful receives)
    senders,       \* calls of ch.sender so far
    kernelSent,    \* uniques of the well-formed messages delivered, in order
    decoded,       \* uniques of the requests the decoder returned, in order
    dispatched,    \* requests handed to dispatch, in order
    fsCalls,       \* calls into the Filesystem, in order
    replies,       \* replies sent through reply senders, in order
    pending,       \* reply senders the backend holds without having replied
    bufLen,        \* length in bytes of run's receive buffer
    allocs,        \* receive buffers allocated so far
    lastMsg,       \* bytes of the message the last successful receive delivered
    parsed         \* bytes handed to the decoder by the last call of request

vars == <<caller, worker, loop, seState, proto_major, proto_minor, initialized,
          destroyed, mounted, chDrops, unmountCalls, log, buffer, res, req,
          runs, receives, retries, delivered, senders, kernelSent, decoded,
          dispatched, fsCalls, replies, pending, bufLen, allocs, lastMsg,
          parsed>>

seFields == <<proto_major, proto_minor, initialized, destroyed>>
loopVars == <<loop, buffer, res, req>>
counters == <<runs, receives, retries, delivered, senders, bufLen, allocs>>
history == <<kernelSent, decoded, dispatched, fsCalls, replies, pending, lastMsg,
            parsed>>
threads == <<caller, worker>>
mountVars == <<seState, mounted, chDrops, unmountCalls, log>>

\* ------------------------------------------------------------------ values
Ok(len) == [ok |-> TRUE, val |-> len]
Err(errno) == [ok |-> FALSE, val |-> errno]
NoResult == [ok |-> FALSE, val |-> 0]
NoReq == [some |-> FALSE, opcode |-> 0, unique |-> 0, sender |-> 0]

\* Vec::from_elem(BUFFER_SIZE, 0u8), restricted to the tracked prefix.
ZeroBuffer == [i \in 1..BufCells |-> 0]
\* slice_to that ignores len and yields the whole buffer.
SliceTo_Whole(buf, len) == buf


\* buffer.slice_to(len)
SliceTo(buf, len) == SubSeq(buf, 1, len)

\* ------------------------------------------------------------- the channel
\* Messages the kernel may hand to one read: well-formed requests carrying
\* the next unique id u, and malformed ones (an empty read, an unknown
\* opcode, a header whose length field exceeds what was read).
WellFormedMsgs(u) ==
    {<<HeaderLen, op, u>> : op \in Opcodes} \cup {<<HeaderLen + 1, FUSE_LOOKUP, u, 1>>}
MalformedMsgs(u) ==
    {<< >>, <<HeaderLen, 0, u>>, <<HeaderLen + 1, FUSE_LOOKUP, u>>}
KernelMsgs(u) == WellFormedMsgs(u) \cup MalformedMsgs(u)

\* Channel::receive copies one message to the front of the caller's buffer
\* and leaves the rest of the buffer as it was.
Fill(buf, m) == [i \in 1..Len(buf) |-> IF i <= Len(m) THEN m[i] ELSE buf[i]]

\* Releasing a Channel unmounts its mount point.
ChannelRelease ==
    /\ chDrops' = chDrops + 1
    /\ mounted' = FALSE

\* ------------------------------------------------------------- the decoder
\* request(sender, bytes): Some(request) for one well-formed message, else None.
Request(sender, bytes) ==
    IF /\ Len(bytes) >= HeaderLen
       /\ bytes[1] = Len(bytes)
       /\ bytes[2] \in Opcodes
    THEN [some |-> TRUE, opcode |-> bytes[2], unique |-> bytes[3], sender |-> sender]
    ELSE NoReq

\* ----------------------------------------------------------------- Session
Init ==
    /\ caller = "start"
    /\ worker = "none"
    /\ loop = "off"
    /\ seState = "none"
    /\ proto_major = 0 /\ proto_minor = 0
    /\ initialized = FALSE /\ destroyed = FALSE
    /\ mounted = FALSE
    /\ chDrops = 0
    /\ unmountCalls = 0
    /\ log = << >>
    /\ buffer = ZeroBuffer
    /\ res = NoResult
    /\ req = NoReq
    /\ runs = 0 /\ receives = 0 /\ retries = 0 /\ delivered = 0 /\ senders = 0
    /\ kernelSent = << >>
    /\ decoded = << >> /\ dispatched = << >> /\ fsCalls = << >> /\ replies = << >>
    /\ pending = {}
    /\ bufLen = 0 /\ allocs = 0
    /\ lastMsg = << >> /\ parsed = << >>

\* NewSessionFields with the Session born initialized.
NewSessionFields_Initialized ==
    /\ proto_major' = 0
    /\ proto_minor' = 0
    /\ initialized' = TRUE
    /\ destroyed' = FALSE

\* NewSessionFields with the Session born destroyed.
NewSessionFields_Destroyed ==
    /\ proto_major' = 0
    /\ proto_minor' = 0
    /\ initialized' = FALSE
    /\ destroyed' = TRUE

\* The struct literal of Session::new.
NewSessionFields ==
    /\ proto_major' = 0
    /\ proto_minor' = 0
    /\ initialized' = FALSE
    /\ destroyed' = FALSE

\* Session::new with Channel::new returning Ok(ch): the mount succeeded.
SessionNewOk ==
    /\ caller = "start"
    /\ log' = Append(log, "Mounting")
    /\ mounted' = TRUE
    /\ seState' = "live"
    /\ NewSessionFields
    /\ caller' = "owns"
    /\ UNCHANGED <<worker, chDrops, unmountCalls, loopVars, counters, history>>

\* Session::new with Channel::new returning Err: panic!, no Session is built.
SessionNewErr ==
    /\ caller = "start"
    /\ log' = Append(log, "Mounting")
    /\ caller' = "panicked"
    /\ UNCHANGED <<worker, seState, mounted, chDrops, unmountCalls, seFields,
                   loopVars, counters, history>>

\* SessionDrop with the channel kept alive past the Session (never released).
SessionDrop_LeaksChannel ==
    /\ log' = Append(log, "Unmounted")
    /\ seState' = "dropped"
    /\ UNCHANGED <<chDrops, mounted>>

\* Drop for Session: the log line, then the fields are dropped, ch among them.
SessionDrop ==
    /\ log' = Append(log, "Unmounted")
    /\ seState' = "dropped"
    /\ ChannelRelease

\* Session::run returning to whoever called it: the caller in the foreground,
\* the closure of the background task otherwise.
RunReturns ==
    /\ loop' = "left"
    /\ IF caller = "running"
       THEN caller' = "owns" /\ worker' = worker
       ELSE worker' = "returned" /\ caller' = caller

\* panic! inside Session::run: the thread running the loop starts to unwind.
RunPanics ==
    /\ loop' = "panic"
    /\ IF caller = "running"
       THEN caller' = "unwinding" /\ worker' = worker
       ELSE worker' = "unwinding" /\ caller' = caller

\* Classify with the EAGAIN arm leaving the loop.
Classify_EagainBreaks(r) ==
    IF ~r.ok /\ r.val = ENOENT THEN "continue"
    ELSE IF ~r.ok /\ r.val = EINTR THEN "continue"
    ELSE IF ~r.ok /\ r.val = EAGAIN THEN "break"
    ELSE IF ~r.ok /\ r.val = ENODEV THEN "break"
    ELSE IF ~r.ok THEN "panic"
    ELSE "request"

\* Classify with the catch-all Err(err) arm written before the ENODEV arm.
Classify_CatchAllFirst(r) ==
    IF ~r.ok /\ r.val = ENOENT THEN "continue"
    ELSE IF ~r.ok /\ r.val = EINTR THEN "continue"
    ELSE IF ~r.ok /\ r.val = EAGAIN THEN "continue"
    ELSE IF ~r.ok THEN "panic"
    ELSE IF ~r.ok /\ r.val = ENODEV THEN "break"
    ELSE "request"

\* Classify with the catch-all arm leaving the loop instead of panicking.
Classify_OtherBreaks(r) ==
    IF ~r.ok /\ r.val = ENOENT THEN "continue"
    ELSE IF ~r.ok /\ r.val = EINTR THEN "continue"
    ELSE IF ~r.ok /\ r.val = EAGAIN THEN "continue"
    ELSE IF ~r.ok /\ r.val = ENODEV THEN "break"
    ELSE IF ~r.ok THEN "break"
    ELSE "request"

\* The arms of `match self.ch.receive(..)`, tried in the order written.
Classify(r) ==
    IF ~r.ok /\ r.val = ENOENT THEN "continue"
    ELSE IF ~r.ok /\ r.val = EINTR THEN "continue"
    ELSE IF ~r.ok /\ r.val = EAGAIN THEN "continue"
    ELSE IF ~r.ok /\ r.val = ENODEV THEN "break"
    ELSE IF ~r.ok THEN "panic"
    ELSE "request"

\* The caller calls se.run(): the buffer is allocated and the loop entered.
EnterLoop ==
    /\ buffer' = ZeroBuffer
    /\ bufLen' = BUFFER_SIZE
    /\ allocs' = allocs + 1
    /\ loop' = "recv"
    /\ res' = NoResult
    /\ req' = NoReq
    /\ runs' = runs + 1

CallRun ==
    /\ caller = "owns"
    /\ runs < MaxRuns
    /\ caller' = "running"
    /\ EnterLoop
    /\ UNCHANGED <<worker, mountVars, seFields, receives, retries, delivered,
                   senders, history>>

\* The Session goes out of scope in the caller, whether or not run was called.
DropSession ==
    /\ caller = "owns"
    /\ caller' = "done"
    /\ SessionDrop
    /\ UNCHANGED <<worker, unmountCalls, seFields, loopVars, counters, history>>

\* ch.receive with the filesystem mounted: the kernel hands over one message.
ReceiveMsg ==
    /\ loop = "recv"
    /\ mounted
    /\ receives < MaxRecv
    /\ \E m \in KernelMsgs(delivered + 1) :
          /\ Len(m) <= bufLen
          /\ buffer' = Fill(buffer, m)
          /\ res' = Ok(Len(m))
          /\ lastMsg' = m
          /\ kernelSent' = IF m \in WellFormedMsgs(delivered + 1)
                           THEN Append(kernelSent, delivered + 1)
                           ELSE kernelSent
    /\ delivered' = delivered + 1
    /\ receives' = receives + 1
    /\ loop' = "match"
    /\ UNCHANGED <<threads, mountVars, seFields, req, runs, retries, senders,
                   decoded, dispatched, fsCalls, replies, pending, bufLen,
                   allocs, parsed>>

\* ch.receive with the filesystem mounted: the read fails.
ReceiveError ==
    /\ loop = "recv"
    /\ mounted
    /\ receives < MaxRecv
    /\ \E e \in RetryErrnos \cup OtherErrnos : res' = Err(e)
    /\ receives' = receives + 1
    /\ loop' = "match"
    /\ UNCHANGED <<threads, mountVars, seFields, buffer, req, runs, retries,
                   delivered, senders, bufLen, allocs, history>>

\* ch.receive after the filesystem has been unmounted: ENODEV.
ReceiveUnmounted ==
    /\ loop = "recv"
    /\ ~mounted
    /\ res' = Err(ENODEV)
    /\ receives' = receives + 1
    /\ loop' = "match"
    /\ UNCHANGED <<threads, mountVars, seFields, buffer, req, runs, retries,
                   delivered, senders, bufLen, allocs, history>>

\* MatchContinue with ch.sender() called for the failed receive as well.
MatchContinue_CreatesSender ==
    /\ loop = "match"
    /\ Classify(res) = "continue"
    /\ loop' = "recv"
    /\ retries' = retries + 1
    /\ senders' = senders + 1
    /\ UNCHANGED <<threads, mountVars, seFields, buffer, res, req, runs,
                   receives, delivered, bufLen, allocs, history>>

\* MatchContinue that gives up and leaves the loop after two retries.
MatchContinue_RetryLimit ==
    /\ loop = "match"
    /\ Classify(res) = "continue"
    /\ IF retries >= 2
       THEN RunReturns
       ELSE loop' = "recv" /\ UNCHANGED threads
    /\ retries' = retries + 1
    /\ UNCHANGED <<mountVars, seFields, buffer, res, req, runs, receives,
                   delivered, senders, bufLen, allocs, history>>

\* Err(ENOENT) | Err(EINTR) | Err(EAGAIN) => continue
MatchContinue ==
    /\ loop = "match"
    /\ Classify(res) = "continue"
    /\ loop' = "recv"
    /\ retries' = retries + 1
    /\ UNCHANGED <<threads, mountVars, seFields, buffer, res, req, runs,
                   receives, delivered, senders, bufLen, allocs,
                   history>>

\* Err(ENODEV) => break
MatchBreak ==
    /\ loop = "match"
    /\ Classify(res) = "break"
    /\ RunReturns
    /\ UNCHANGED <<mountVars, seFields, buffer, res, req, counters, history>>

\* Err(err) => panic!("Lost connection to FUSE device. Error {}", err)
MatchPanic ==
    /\ loop = "match"
    /\ Classify(res) = "panic"
    /\ RunPanics
    /\ UNCHANGED <<mountVars, seFields, buffer, res, req, counters, history>>

\* MatchOk with `None => continue`.
MatchOk_NoneContinues ==
    /\ loop = "match"
    /\ Classify(res) = "request"
    /\ senders' = senders + 1
    /\ parsed' = SliceTo(buffer, res.val)
    /\ LET r == Request(senders + 1, parsed')
       IN  IF r.some
           THEN /\ req' = r
                /\ decoded' = Append(decoded, r.unique)
                /\ loop' = "dispatch"
           ELSE /\ loop' = "recv"
                /\ UNCHANGED <<req, decoded>>
    /\ UNCHANGED <<threads, mountVars, seFields, buffer, res, runs, receives,
                   retries, delivered, kernelSent, dispatched, fsCalls, replies,
                   pending, bufLen, allocs, lastMsg>>

\* MatchOk with the decoder given the whole buffer instead of slice_to(len).
MatchOk_WholeBuffer ==
    /\ loop = "match"
    /\ Classify(res) = "request"
    /\ senders' = senders + 1
    /\ parsed' = buffer
    /\ LET r == Request(senders + 1, parsed')
       IN  IF r.some
           THEN /\ req' = r
                /\ decoded' = Append(decoded, r.unique)
                /\ loop' = "dispatch"
                /\ UNCHANGED threads
           ELSE /\ RunReturns
                /\ UNCHANGED <<req, decoded>>
    /\ UNCHANGED <<mountVars, seFields, buffer, res, runs, receives, retries,
                   delivered, kernelSent, dispatched, fsCalls, replies, pending,
                   bufLen, allocs, lastMsg>>

\* Ok(len) => match request(self.ch.sender(), buffer.slice_to(len))
\*     None => break, Some(req) => dispatch(&req, self)
MatchOk ==
    /\ loop = "match"
    /\ Classify(res) = "request"
    /\ senders' = senders + 1
    /\ parsed' = SliceTo(buffer, res.val)
    /\ LET r == Request(senders + 1, parsed')
       IN  IF r.some
           THEN /\ req' = r
                /\ decoded' = Append(decoded, r.unique)
                /\ loop' = "dispatch"
                /\ UNCHANGED threads
           ELSE /\ RunReturns
                /\ UNCHANGED <<req, decoded>>
    /\ UNCHANGED <<mountVars, seFields, buffer, res, runs, receives, retries,
                   delivered, kernelSent, dispatched, fsCalls, replies, pending,
                   bufLen, allocs, lastMsg>>

\* ---------------------------------------------------------- the dispatcher
Reply(r, e) == [unique |-> r.unique, sender |-> r.sender, error |-> e]
FsCall(r, fail) == [opcode |-> r.opcode, unique |-> r.unique, failed |-> fail]
Slot(r) == [unique |-> r.unique, sender |-> r.sender]

\* dispatch(&req, se) for the init request: the backend's init is called and,
\* unless it fails, the protocol version is stored and the Session initialized.
DispatchInit(fail) ==
    IF initialized \/ destroyed
    THEN /\ replies' = Append(replies, Reply(req, TRUE))
         /\ UNCHANGED <<seFields, fsCalls>>
    ELSE /\ fsCalls' = Append(fsCalls, FsCall(req, fail))
         /\ replies' = Append(replies, Reply(req, fail))
         /\ IF fail
            THEN UNCHANGED seFields
            ELSE /\ proto_major' = 7
                 /\ proto_minor' = 8
                 /\ initialized' = TRUE
                 /\ destroyed' = destroyed

\* dispatch(&req, se) for the destroy request.
DispatchDestroy ==
    IF ~initialized \/ destroyed
    THEN /\ replies' = Append(replies, Reply(req, TRUE))
         /\ UNCHANGED <<seFields, fsCalls>>
    ELSE /\ fsCalls' = Append(fsCalls, FsCall(req, FALSE))
         /\ replies' = Append(replies, Reply(req, FALSE))
         /\ destroyed' = TRUE
         /\ UNCHANGED <<proto_major, proto_minor, initialized>>

\* DispatchOp that looks at initialized only.
DispatchOp_IgnoresDestroyed(fail, defer) ==
    IF ~initialized
    THEN /\ ~defer
         /\ replies' = Append(replies, Reply(req, TRUE))
         /\ UNCHANGED <<seFields, fsCalls, pending>>
    ELSE /\ fsCalls' = Append(fsCalls, FsCall(req, fail))
         /\ IF defer
            THEN ~fail /\ pending' = pending \cup {Slot(req)} /\ replies' = replies
            ELSE replies' = Append(replies, Reply(req, fail)) /\ pending' = pending
         /\ UNCHANGED seFields

\* dispatch(&req, se) for any other operation: one backend call whose
\* per-request failure becomes an error reply.  A call that succeeds either
\* replies before it returns or keeps the reply sender for work it started.
DispatchOp(fail, defer) ==
    IF ~initialized \/ destroyed
    THEN /\ ~defer
         /\ replies' = Append(replies, Reply(req, TRUE))
         /\ UNCHANGED <<seFields, fsCalls, pending>>
    ELSE /\ fsCalls' = Append(fsCalls, FsCall(req, fail))
         /\ IF defer
            THEN ~fail /\ pending' = pending \cup {Slot(req)} /\ replies' = replies
            ELSE replies' = Append(replies, Reply(req, fail)) /\ pending' = pending
         /\ UNCHANGED seFields

\* dispatch(&req, se): the operation is chosen by the request's opcode.
DispatchRequest(fail, defer) ==
    IF req.opcode = FUSE_INIT
    THEN ~defer /\ DispatchInit(fail) /\ pending' = pending
    ELSE IF req.opcode = FUSE_DESTROY
    THEN ~fail /\ ~defer /\ DispatchDestroy /\ pending' = pending
    ELSE DispatchOp(fail, defer)

\* Work the backend started for an earlier request sends its reply.
LateReply ==
    /\ seState = "live"
    /\ \E p \in pending :
          /\ replies' = Append(replies, [unique |-> p.unique, sender |-> p.sender,
                                         error |-> FALSE])
          /\ pending' = pending \ {p}
    /\ UNCHANGED <<threads, mountVars, seFields, loopVars, counters, kernelSent,
                   decoded, dispatched, fsCalls, lastMsg, parsed>>

\* Dispatch with a failed backend call ending the loop.
Dispatch_FailureBreaks ==
    /\ loop = "dispatch"
    /\ dispatched' = Append(dispatched, req.unique)
    /\ \E fail, defer \in BOOLEAN :
          /\ DispatchRequest(fail, defer)
          /\ IF fail /\ Len(fsCalls') > Len(fsCalls)
             THEN RunReturns
             ELSE loop' = "recv" /\ UNCHANGED threads
    /\ req' = NoReq
    /\ UNCHANGED <<mountVars, buffer, res, counters, kernelSent, decoded,
                   lastMsg, parsed>>

\* Dispatch that stays in the iteration until the reply has been sent.
Dispatch_WaitsForReply ==
    /\ loop = "dispatch"
    /\ dispatched' = Append(dispatched, req.unique)
    /\ \E fail, defer \in BOOLEAN : DispatchRequest(fail, defer)
    /\ loop' = IF pending' # pending THEN "blocked" ELSE "recv"
    /\ req' = NoReq
    /\ UNCHANGED <<threads, mountVars, buffer, res, counters, kernelSent, decoded,
                   lastMsg, parsed>>

\* Dispatch that leaves the loop once the destroy request has been served.
Dispatch_DestroyBreaks ==
    /\ loop = "dispatch"
    /\ dispatched' = Append(dispatched, req.unique)
    /\ \E fail, defer \in BOOLEAN : DispatchRequest(fail, defer)
    /\ IF destroyed'
       THEN RunReturns
       ELSE loop' = "recv" /\ UNCHANGED threads
    /\ req' = NoReq
    /\ UNCHANGED <<mountVars, buffer, res, counters, kernelSent, decoded,
                   lastMsg, parsed>>

\* Some(req) => dispatch(&req, self), then the loop goes round.
Dispatch ==
    /\ loop = "dispatch"
    /\ dispatched' = Append(dispatched, req.unique)
    /\ \E fail, defer \in BOOLEAN : DispatchRequest(fail, defer)
    /\ loop' = "recv"
    /\ req' = NoReq
    /\ UNCHANGED <<threads, mountVars, buffer, res, counters, kernelSent, decoded,
                   lastMsg, parsed>>

\* ------------------------------------------------------- BackgroundSession
\* Spawn with the caller keeping the Session it handed to the task.
Spawn_KeepsSession ==
    /\ caller = "owns"
    /\ worker = "none"
    /\ caller' = "owns"
    /\ worker' = "spawned"
    /\ UNCHANGED <<mountVars, seFields, loopVars, counters, history>>

\* BackgroundSession::new: the Session moves into the closure of a new task,
\* the handle keeps a clone of the mount path.
Spawn ==
    /\ caller = "owns"
    /\ caller' = "handle"
    /\ worker' = "spawned"
    /\ UNCHANGED <<mountVars, seFields, loopVars, counters, history>>

\* The task starts: let mut se = se; se.run();
WorkerStart ==
    /\ worker = "spawned"
    /\ worker' = "running"
    /\ EnterLoop
    /\ UNCHANGED <<caller, mountVars, seFields, receives, retries, delivered,
                   senders, history>>

\* WorkerExit with the closure ending without dropping se.
WorkerExit_Leaks ==
    /\ worker = "returned"
    /\ worker' = "done"
    /\ UNCHANGED <<caller, mountVars, seFields, loopVars, counters, history>>

\* se.run() returned in the closure; the closure ends and drops se.
WorkerExit ==
    /\ worker = "returned"
    /\ worker' = "done"
    /\ SessionDrop
    /\ UNCHANGED <<caller, unmountCalls, seFields, loopVars, counters, history>>

\* Unwinding after the panic in run drops the Session on the way out.
Unwind ==
    /\ \/ caller = "unwinding" /\ caller' = "panicked" /\ worker' = worker
       \/ worker = "unwinding" /\ worker' = "panicked" /\ caller' = caller
    /\ SessionDrop
    /\ UNCHANGED <<unmountCalls, seFields, loopVars, counters, history>>

\* DropHandle that only logs and never calls channel::unmount.
DropHandle_NoUnmount ==
    /\ caller = "handle"
    /\ caller' = "done"
    /\ log' = Append(log, "Unmounting")
    /\ UNCHANGED <<worker, seState, chDrops, unmountCalls, mounted, seFields,
                   loopVars, counters, history>>

\* DropHandle that first waits for the background task to end.
DropHandle_Joins ==
    /\ caller = "handle"
    /\ worker \in {"done", "panicked"}
    /\ caller' = "done"
    /\ log' = Append(log, "Unmounting")
    /\ unmountCalls' = unmountCalls + 1
    /\ mounted' = FALSE
    /\ UNCHANGED <<worker, seState, chDrops, seFields, loopVars, counters, history>>

\* DropHandle that calls channel::unmount only while the path is mounted.
DropHandle_SkipsIfUnmounted ==
    /\ caller = "handle"
    /\ caller' = "done"
    /\ log' = Append(log, "Unmounting")
    /\ unmountCalls' = IF mounted THEN unmountCalls + 1 ELSE unmountCalls
    /\ mounted' = FALSE
    /\ UNCHANGED <<worker, seState, chDrops, seFields, loopVars, counters, history>>

\* Drop for BackgroundSession: channel::unmount(&self.mountpoint).
DropHandle ==
    /\ caller = "handle"
    /\ caller' = "done"
    /\ log' = Append(log, "Unmounting")
    /\ unmountCalls' = unmountCalls + 1
    /\ mounted' = FALSE
    /\ UNCHANGED <<worker, seState, chDrops, seFields, loopVars, counters, history>>

\* ------------------------------------------------------------- environment
\* The filesystem is unmounted from outside (umount, kernel side).
ExternalUnmount ==
    /\ seState = "live"
    /\ mounted
    /\ mounted' = FALSE
    /\ UNCHANGED <<threads, seState, chDrops, unmountCalls, log, seFields,
                   loopVars, counters, history>>

\* Steps of the thread that runs the loop which do not wait for the kernel.
LoopStep ==
    \/ ReceiveUnmounted
    \/ MatchContinue
    \/ MatchBreak
    \/ MatchPanic
    \/ MatchOk
    \/ Dispatch

WorkerStep ==
    \/ WorkerStart
    \/ WorkerExit
    \/ (worker \in {"running", "unwinding"} /\ (LoopStep \/ Unwind))

Next ==
    \/ SessionNewOk
    \/ SessionNewErr
    \/ CallRun
    \/ DropSession
    \/ Spawn
    \/ WorkerStart
    \/ ReceiveMsg
    \/ ReceiveError
    \/ ReceiveUnmounted
    \/ MatchContinue
    \/ MatchBreak
    \/ MatchPanic
    \/ MatchOk
    \/ Dispatch
    \/ WorkerExit
    \/ Unwind
    \/ DropHandle
    \/ ExternalUnmount
    \/ LateReply

Spec == Init /\ [][Next]_vars

\* The background task is a native thread: it is scheduled as long as it can
\* take a step that does not wait for the kernel.
FairSpec == Spec /\ WF_vars(WorkerStep)

\* Whichever thread runs the loop is scheduled, and every call the loop makes
\* that does not wait for the kernel (the decoder, dispatch) returns.
FairRunSpec == Spec /\ WF_vars(LoopStep)

\* ================================================================== claims
\* Number of times line occurs in the log.
Count(line) == Cardinality({i \in 1..Len(log) : log[i] = line})

\* The thread that owned the Session last has finished with it.
OwnerEnded ==
    \/ worker \in {"done", "panicked"}
    \/ worker = "none" /\ caller = "done"
    \/ worker = "none" /\ caller = "panicked" /\ seState # "none"

\* C1: a constructed Session's channel is released exactly once: never twice,
\* and once its owner has finished - after a clean loop exit, after the panic
\* in run, or after a drop with run never called - it has been released once.
C1_TeardownExactlyOnce ==
    /\ chDrops <= 1
    /\ seState = "none" => chDrops = 0
    /\ seState = "live" => chDrops = 0
    /\ seState = "dropped" => chDrops = 1
    /\ OwnerEnded => seState = "dropped" /\ chDrops = 1 /\ ~mounted
    /\ (caller = "done" /\ worker = "none" /\ runs = 0) => chDrops = 1
    /\ loop = "panic" /\ caller # "unwinding" /\ worker # "unwinding" => chDrops = 1

\* The loop ended by the fatal panic, unwinding is over, the channel was
\* released once.
C1_Witness ==
    /\ loop = "panic"
    /\ worker = "panicked"
    /\ chDrops = 1

\* C2 as stated: once run has returned and control is back in the caller,
\* the Session is torn down and the filesystem is no longer mounted.
C2_TornDownOnReturn ==
    (loop = "left" /\ caller = "owns") =>
        seState = "dropped" /\ ~mounted /\ Count("Unmounted") = 1

\* C2 amended: run returning leaves the Session alive with its owner; in
\* every state where run has returned, the Session is torn down (channel
\* released once, unmounted, one teardown line) exactly if its owner has
\* dropped it, and untouched (channel not released, no teardown line) else.
C2_TornDownWhenOwnerDrops ==
    loop = "left" =>
        /\ seState = "dropped" <=> OwnerEnded
        /\ seState = "dropped" => chDrops = 1 /\ ~mounted /\ Count("Unmounted") = 1
        /\ seState = "live" => chDrops = 0 /\ Count("Unmounted") = 0

\* run has returned to the caller after an undecodable message: the Session
\* is alive and the filesystem still mounted.
C2_Witness ==
    /\ loop = "left"
    /\ caller = "owns"
    /\ res.ok
    /\ seState = "live"
    /\ mounted

\* The handle has been dropped.
HandleDropped == caller = "done" /\ worker # "none"

\* C3: a dropped handle has issued exactly one channel::unmount; when it is
\* dropped before any message was delivered, every later receive fails with
\* ENODEV and the background task ends with the Session torn down once.
C3_DropBeforeAnyMessage ==
    /\ [](HandleDropped => unmountCalls = 1)
    /\ [](~HandleDropped => unmountCalls = 0)
    /\ [][(HandleDropped /\ loop = "recv" /\ loop' = "match") => res' = Err(ENODEV)]_vars
    /\ (HandleDropped /\ delivered = 0) ~>
           (worker \in {"done", "panicked"} /\ seState = "dropped" /\ chDrops = 1)

\* The handle was dropped with the loop waiting in its first receive, and
\* the task has ended through ENODEV with the Session torn down.
C3_Witness ==
    /\ HandleDropped
    /\ delivered = 0
    /\ receives = 1
    /\ res = Err(ENODEV)
    /\ worker = "done"
    /\ chDrops = 1
    /\ unmountCalls = 1

\* A read error of the retry class / of the class the match does not name.
Retryable(r) == ~r.ok /\ r.val \in RetryErrnos
Fatal(r) == ~r.ok /\ r.val \notin (RetryErrnos \cup {ENODEV})

\* What a loop iteration may touch besides its own position.
loopEffects == <<seFields, senders, decoded, dispatched, fsCalls>>
stepEffects == <<loopEffects, replies, pending>>
NoPanic == caller' # "unwinding" /\ worker' # "unwinding"

\* C4: a receive that fails with ENOENT, EINTR or EAGAIN changes neither the
\* Session's fields nor the backend, creates no sender, decodes and dispatches
\* nothing, and the loop goes back to receive, however many of them follow
\* one another.
C4_RetryableFrame ==
    [][ /\ (loop = "recv" /\ loop' = "match" /\ Retryable(res'))
              => UNCHANGED <<stepEffects, threads>>
        /\ (loop = "match" /\ Retryable(res) /\ loop' # loop)
              => /\ loop' = "recv"
                 /\ retries' = retries + 1
                 /\ UNCHANGED <<stepEffects, threads, buffer, receives>>
      ]_vars

\* Two retryable failures in a row, and the loop is about to receive again.
C4_Witness ==
    /\ loop = "recv"
    /\ retries = 2
    /\ receives = 2
    /\ Retryable(res)
    /\ fsCalls = << >>

\* C5: on Err(ENODEV) run returns normally, without a panic, and this run
\* makes no further receive, sender, decode, dispatch, backend call or reply.
C5_NodevExitsCleanly ==
    [][ /\ (loop = "match" /\ res = Err(ENODEV) /\ loop' # loop)
              => /\ loop' = "left"
                 /\ NoPanic
                 /\ UNCHANGED <<stepEffects, receives>>
        /\ (loop = "left" /\ runs' = runs)
              => UNCHANGED <<loop, loopEffects, receives>>
      ]_vars

\* run has returned because of ENODEV, after the backend had been called.
C5_Witness ==
    /\ loop = "left"
    /\ res = Err(ENODEV)
    /\ caller = "owns"
    /\ Len(fsCalls) > 0

\* C6: on an error other than ENOENT, EINTR, EAGAIN and ENODEV the thread
\* running the loop panics: nothing further is received or dispatched, the
\* loop is never resumed, and the four named codes never end in the panic.
C6_OtherErrorPanics ==
    /\ [][ /\ (loop = "match" /\ Fatal(res) /\ loop' # loop)
                 => /\ loop' = "panic"
                    /\ (caller' = "unwinding" \/ worker' = "unwinding")
                    /\ UNCHANGED <<stepEffects, receives>>
           /\ (loop = "match" /\ ~res.ok /\ ~Fatal(res) /\ loop' # loop)
                 => loop' \in {"recv", "left"} /\ NoPanic
           /\ (loop = "panic")
                 => UNCHANGED <<loop, loopEffects, receives, runs>>
         ]_vars
    /\ [](loop = "panic" =>
             \/ caller \in {"unwinding", "panicked"}
             \/ worker \in {"unwinding", "panicked"})

\* The caller's run met an error the match does not name and the caller has
\* been terminated by the panic.
C6_Witness ==
    /\ loop = "panic"
    /\ caller = "panicked"
    /\ res.val \in OtherErrnos

\* C7: when the decoder returns None for a received message (a 0-byte read
\* included) run returns as for ENODEV, with no backend call, dispatch or
\* reply for it or after it; a retryable error followed by a malformed
\* message gives one retry, two receives, a clean exit and no backend call.
C7_MalformedExits ==
    /\ [][ /\ (loop = "match" /\ res.ok /\ senders' = senders + 1 /\ decoded' = decoded)
                 => /\ loop' = "left"
                    /\ NoPanic
                    /\ UNCHANGED <<seFields, dispatched, fsCalls, replies, pending,
                                   receives>>
           /\ (loop = "match" /\ res = Ok(0) /\ loop' # loop)
                 => loop' = "left" /\ decoded' = decoded
         ]_vars
    /\ []((loop = "left" /\ receives = 2 /\ retries = 1 /\ res.ok)
            => /\ fsCalls = << >> /\ dispatched = << >> /\ replies = << >>
               /\ runs = 1
               /\ caller \notin {"unwinding", "panicked"}
               /\ worker \notin {"unwinding", "panicked"})

\* One retry, then a 0-byte read: run has returned to the caller and the
\* backend was never called.
C7_Witness ==
    /\ loop = "left"
    /\ receives = 2
    /\ retries = 1
    /\ res = Ok(0)
    /\ caller = "owns"
    /\ fsCalls = << >>

IsPrefix(s, t) == Len(s) <= Len(t) /\ SubSeq(t, 1, Len(s)) = s
Increasing(s) == \A i, j \in 1..Len(s) : i < j => s[i] < s[j]

\* C8: the requests handed to dispatch are the well-formed messages the
\* channel delivered, in delivery order: at most the one just received is
\* still to be dispatched, none is repeated, skipped or overtaken.
C8_DispatchOrder ==
    /\ IsPrefix(dispatched, kernelSent)
    /\ Len(kernelSent) - Len(dispatched) <= 1
    /\ loop \in {"off", "recv", "left", "panic"} => dispatched = kernelSent
    /\ loop = "dispatch" => kernelSent = Append(dispatched, req.unique)
    /\ Increasing(dispatched)
    /\ Increasing([i \in 1..Len(fsCalls) |-> fsCalls[i].unique])

\* Three requests dispatched in order with a retry among the receives.
C8_Witness ==
    /\ dispatched = <<1, 2, 3>>
    /\ retries = 1
    /\ Len(fsCalls) = 3

\* C9: every dispatch, a failed backend call included, sends one reply for
\* its own request (an error reply when the backend call failed), leaves the
\* thread running and puts the loop back at receive; requests delivered after
\* a failed one are dispatched and answered like any other.
C9_FailureDoesNotEndLoop ==
    /\ [][ (loop = "dispatch" /\ loop' # loop)
              => /\ loop' = "recv"
                 /\ UNCHANGED threads
                 /\ \/ /\ Len(replies') = Len(replies) + 1
                       /\ replies'[Len(replies')].unique = req.unique
                       /\ replies'[Len(replies')].sender = req.sender
                       /\ pending' = pending
                    \/ /\ replies' = replies
                       /\ Slot(req) \notin pending
                       /\ pending' = pending \cup {Slot(req)}
                 /\ (Len(fsCalls') > Len(fsCalls) /\ fsCalls'[Len(fsCalls')].failed)
                       => /\ Len(replies') = Len(replies) + 1
                          /\ replies'[Len(replies')].error
         ]_vars
    /\ [](/\ Len(replies) + Cardinality(pending) = Len(dispatched)
          /\ \A i \in 1..Len(dispatched) :
                Cardinality({j \in 1..Len(replies) : replies[j].unique = dispatched[i]})
                  + Cardinality({p \in pending : p.unique = dispatched[i]}) = 1
          /\ \A i \in 1..Len(fsCalls) :
                fsCalls[i].failed =>
                    \E j \in 1..Len(replies) :
                        replies[j].unique = fsCalls[i].unique /\ replies[j].error
          /\ loop \in {"recv", "left"} => dispatched = kernelSent)

\* A backend call failed and the next request was served by a backend call
\* that succeeded.
C9_Witness ==
    \E i \in 1..Len(fsCalls) :
        /\ i < Len(fsCalls)
        /\ fsCalls[i].failed
        /\ ~fsCalls[i + 1].failed
        /\ fsCalls[i + 1].unique = fsCalls[i].unique + 1

\* C10: Session::new either yields a live Session with proto_major = 0,
\* proto_minor = 0, both flags false and the filesystem mounted, or panics
\* in the caller with no Session: then nothing is ever torn down, unmounted,
\* run or spawned.
C10_NewAllOrNothing ==
    /\ [][ (caller = "start" /\ caller' # caller)
              => \/ /\ caller' = "owns"
                    /\ seState' = "live"
                    /\ mounted'
                    /\ proto_major' = 0 /\ proto_minor' = 0
                    /\ ~initialized' /\ ~destroyed'
                 \/ /\ caller' = "panicked"
                    /\ seState' = "none"
                    /\ ~mounted'
         ]_vars
    /\ [](seState = "none" =>
             /\ caller \in {"start", "panicked"}
             /\ worker = "none" /\ loop = "off"
             /\ chDrops = 0 /\ unmountCalls = 0 /\ ~mounted
             /\ Count("Unmounted") = 0 /\ Count("Unmounting") = 0)

\* Channel::new failed: the caller has panicked and there is no Session.
C10_Witness ==
    /\ caller = "panicked"
    /\ seState = "none"
    /\ Count("Mounting") = 1
    /\ chDrops = 0

\* C11: initialized and destroyed only ever go from false to true, each at
\* most once and never back, and destroyed is never true while initialized
\* is false.
C11_FlagsMonotonic ==
    /\ [][(initialized => initialized') /\ (destroyed => destroyed')]_vars
    /\ [](destroyed => initialized)

\* Both flags are set and a further request has been dispatched since.
C11_Witness ==
    /\ initialized
    /\ destroyed
    /\ Len(fsCalls) = 2
    /\ Len(dispatched) = 3

\* C12: once destroyed is true the Filesystem is not called again, whatever
\* the channel delivers afterwards.
C12_NoCallAfterDestroy ==
    [][destroyed => fsCalls' = fsCalls]_vars

\* A well-formed request was dispatched after the destroy and answered
\* without a backend call.
C12_Witness ==
    /\ destroyed
    /\ Len(fsCalls) > 0
    /\ fsCalls[Len(fsCalls)].opcode = FUSE_DESTROY
    /\ Len(dispatched) > 0
    /\ dispatched[Len(dispatched)] > fsCalls[Len(fsCalls)].unique
    /\ loop = "recv"

\* C13: the handle can be dropped in every state of the background task, in
\* a receive or in the middle of a dispatch; the drop is one step that issues
\* the unmount and moves neither the task nor its loop nor the Session, whose
\* teardown may come after the drop has returned.
C13_DropDoesNotWait ==
    /\ [](caller = "handle" => ENABLED DropHandle)
    /\ [][(caller = "handle" /\ caller' = "done")
             => /\ unmountCalls' = unmountCalls + 1
                /\ ~mounted'
                /\ UNCHANGED <<worker, loop, seState, chDrops>>
         ]_vars

\* The drop has returned while the task is in the middle of a dispatch and
\* the Session is still alive.
C13_Witness ==
    /\ HandleDropped
    /\ worker = "running"
    /\ loop = "dispatch"
    /\ seState = "live"
    /\ chDrops = 0

\* The loop of Session::run is between its entry and its exit.
LoopActive == loop \in {"recv", "match", "dispatch"}

\* C14: the loop is run by exactly one thread while it is active, it is never
\* entered while active, and from the spawn on the caller holds the handle
\* only: none of its steps touches the Session, its loop or its backend.
C14_SingleLoop ==
    /\ [](~(caller = "running" /\ worker = "running"))
    /\ [](LoopActive <=> (caller = "running" \/ worker = "running"))
    /\ [](worker # "none" => caller \in {"handle", "done"})
    /\ [][runs' # runs => ~LoopActive]_vars
    /\ [][(worker # "none" /\ caller' # caller)
             => UNCHANGED <<seFields, loopVars, seState, chDrops, counters, history>>
         ]_vars

\* The Session was run by the caller, then spawned: the task is in a
\* dispatch and the caller holds the handle.
C14_Witness ==
    /\ runs = 2
    /\ worker = "running"
    /\ caller = "handle"
    /\ loop = "dispatch"

\* C15: ch.sender() is called once for every successful receive and for no
\* failed one; the sender is bound to the request decoded from that receive
\* and every reply, sent or outstanding, goes through the sender of its own
\* request, no sender serving two requests.
C15_SenderPerReceive ==
    /\ [](/\ senders = IF loop = "match" /\ res.ok THEN delivered - 1 ELSE delivered
          /\ loop = "dispatch" =>
                req.sender = senders /\ req.unique = delivered /\ req.sender = req.unique
          /\ \A j \in 1..Len(replies) : replies[j].sender = replies[j].unique
          /\ \A p \in pending : p.sender = p.unique
          /\ Cardinality({replies[j].sender : j \in 1..Len(replies)}
                           \cup {p.sender : p \in pending})
                = Len(replies) + Cardinality(pending))
    /\ [][senders' # senders
             => loop = "match" /\ res.ok /\ senders' = senders + 1]_vars

\* The third successful receive, after a retry, is being dispatched with
\* the third sender; the first two requests have their replies.
C15_Witness ==
    /\ loop = "dispatch"
    /\ retries = 1
    /\ senders = 3
    /\ req.sender = 3
    /\ Len(replies) = 2

\* C16: a backend call that returns without having replied leaves the loop
\* at its next receive like any other, and an outstanding reply keeps no
\* receive from being issued.
C16_DeferredReplyDoesNotBlock ==
    /\ [][(loop = "dispatch" /\ loop' # loop /\ pending' # pending)
             => /\ loop' = "recv"
                /\ UNCHANGED threads
                /\ replies' = replies
         ]_vars
    /\ []((pending # {} /\ loop = "recv" /\ ~mounted) => ENABLED ReceiveUnmounted)
    /\ []((pending # {} /\ loop = "match") => ENABLED LoopStep)

\* A request's reply is still outstanding while a request received after it
\* has been dispatched and answered, and the loop is at receive again.
C16_Witness ==
    /\ loop = "recv"
    /\ \E p \in pending :
          \E j \in 1..Len(replies) : replies[j].unique > p.unique

\* C17 as stated: nothing but the out-of-band unmount ends the loop, so a
\* run that has returned has returned on ENODEV.
C17_OnlyUnmountEndsLoop ==
    loop = "left" => res = Err(ENODEV)

\* C17 amended: run returns only on ENODEV, which the channel reports only
\* once the filesystem is unmounted, or on a message the decoder rejects; no
\* decoded request, destroy included, ends the loop.
C17_NoRequestEndsLoop ==
    /\ [][(LoopActive /\ loop' = "left")
             => /\ loop = "match"
                /\ \/ res = Err(ENODEV)
                   \/ res.ok /\ senders' = senders + 1 /\ decoded' = decoded
         ]_vars
    /\ [][(loop = "dispatch" /\ loop' # loop) => loop' = "recv"]_vars
    /\ []((loop = "match" /\ res = Err(ENODEV)) => ~mounted)

\* The destroy request has been served and the loop of the still mounted
\* Session is at its next receive.
C17_Witness ==
    /\ destroyed
    /\ mounted
    /\ loop = "recv"
    /\ fsCalls[Len(fsCalls)].opcode = FUSE_DESTROY
\* C18: one run allocates one receive buffer, before its first receive, of
\* BUFFER_SIZE = MAX_WRITE_SIZE + 4096 = 16*1024*1024 + 4096 bytes, and every
\* iteration reuses it; on a successful receive of length L the decoder is
\* given bytes 0..L of the buffer, which are the message just received and
\* hold nothing left over from an earlier message.
C18_OneBufferPrefixOnly ==
    /\ [](BUFFER_SIZE = 16 * 1024 * 1024 + 4096 /\ BUFFER_SIZE = MAX_WRITE_SIZE + 4096)
    /\ [](allocs = runs)
    /\ [](loop # "off" => bufLen = BUFFER_SIZE /\ Len(buffer) <= bufLen)
    /\ [][receives' # receives => allocs >= 1 /\ allocs' = allocs]_vars
    /\ [][(loop # "off" /\ runs' = runs) => bufLen' = bufLen /\ allocs' = allocs]_vars
    /\ [][(loop = "match" /\ res.ok /\ loop' # loop)
            => /\ parsed' = SubSeq(buffer, 1, res.val)
               /\ parsed' = lastMsg
               /\ Len(parsed') = res.val
               /\ buffer' = buffer
         ]_vars
    /\ [][(loop = "recv" /\ loop' = "match" /\ res'.ok)
            => /\ SubSeq(buffer', 1, res'.val) = lastMsg'
               /\ \A i \in 1..Len(buffer) : i > res'.val => buffer'[i] = buffer[i]
         ]_vars

\* A 3-byte request decoded from a buffer whose fourth byte still holds the
\* tail of the 4-byte request received before it in the same run.
C18_Witness ==
    /\ loop = "dispatch"
    /\ Len(parsed) = HeaderLen
    /\ parsed = lastMsg
    /\ buffer[HeaderLen + 1] # 0
    /\ Len(dispatched) >= 1
    /\ allocs = 1

\* The background task has ended and its Session has been torn down.
WorkerEnded == worker \in {"done", "panicked"} /\ seState = "dropped"

\* C19: the drop of the handle calls channel::unmount whatever the state of
\* the background task and of the mount; when the task has already ended
\* (undecodable message, ENODEV, or panic) and the teardown of the Session's
\* channel has unmounted the path, the drop of the handle that follows issues
\* one more unmount of the same path.
C19_SecondUnmount ==
    /\ [][(caller = "handle" /\ caller' = "done")
            => /\ unmountCalls' = unmountCalls + 1
               /\ log' = Append(log, "Unmounting")
               /\ chDrops' = chDrops
         ]_vars
    /\ [][(caller = "handle" /\ WorkerEnded /\ caller' = "done")
            => /\ chDrops = 1 /\ ~mounted /\ Count("Unmounted") = 1
               /\ chDrops' + unmountCalls' = 2
         ]_vars
    /\ [](WorkerEnded => chDrops = 1 /\ ~mounted)
    /\ []((caller = "handle" /\ WorkerEnded) => ENABLED DropHandle)
    /\ [](HandleDropped => unmountCalls = 1)

\* The task ended on an undecodable message while the path was mounted, its
\* Session's teardown unmounted the path, and the handle dropped afterwards
\* has called unmount again.
C19_Witness ==
    /\ HandleDropped
    /\ worker = "done"
    /\ res = Ok(0)
    /\ chDrops = 1
    /\ unmountCalls = 1
    /\ Len(log) >= 2
    /\ log[Len(log) - 1] = "Unmounted"
    /\ log[Len(log)] = "Unmounting"

\* The result at the match is one that ends the loop: ENODEV, an error the
\* match does not name, or a message the decoder rejects.
Terminating ==
    \/ res = Err(ENODEV)
    \/ Fatal(res)
    \/ res.ok /\ ~Request(0, SliceTo(buffer, res.val)).some

\* Every receive of the program so far has failed with a retryable error.
OnlyRetriesSoFar ==
    /\ runs >= 1
    /\ \/ retries = receives
       \/ retries + 1 = receives /\ loop = "match" /\ Retryable(res)

\* C20: the loop ends only at a receive result that is ENODEV, a
\* non-retryable error or a message the decoder rejects, and once the channel
\* has delivered such a result it does end; a retryable error sends it back
\* to the receive whatever the number of retries before it, so as long as
\* every receive has failed with ENOENT, EINTR or EAGAIN the loop is still
\* running and the backend has not been called.
C20_TerminatesIffTerminatingResult ==
    /\ [][(LoopActive /\ ~LoopActive') => loop = "match" /\ Terminating]_vars
    /\ [](loop \in {"left", "panic"} => Terminating)
    /\ ((loop = "match" /\ Terminating) ~> ~LoopActive)
    /\ (loop = "dispatch" ~> loop # "dispatch")
    /\ [][(loop = "match" /\ Retryable(res) /\ loop' # loop)
            => loop' = "recv" /\ retries' = retries + 1 /\ UNCHANGED stepEffects
         ]_vars
    /\ [](OnlyRetriesSoFar
            => LoopActive /\ runs = 1 /\ fsCalls = << >> /\ dispatched = << >>)

\* Three receives in a row have failed with retryable errors and the loop is
\* at its fourth receive, the backend never called.
C20_Witness ==
    /\ loop = "recv"
    /\ receives = 3
    /\ retries = 3
    /\ fsCalls = << >>
    /\ mounted

====
